---------------------------- MODULE Spec2Model ----------------------------
(***************************************************************************)
(* State-machine model of the water zone modificator WaterProxy            *)
(* (lib/rmg/modificators/WaterProxy.cpp): lake extraction (process,        *)
(* collectLakes), the connectivity decision engine (waterRoute,            *)
(* waterKeepConnection), the boat and shipyard placement searches and the  *)
(* debug classification (dump).                                            *)
(*                                                                         *)
(* The map is a grid of MapWidth x Rows tiles on one level.                *)
(* Four land zones and one water zone share it: from left to right a land  *)
(* column of zone 1, a block of water, a land column (zone 2, its top tile *)
(* possibly of zone 1), a second block of water, a land column of zone 3   *)
(* and, away from the water, a land column of zone 5.                      *)
(***************************************************************************)
EXTENDS Integers, Sequences, FiniteSets, TLC

VARIABLES
    terType,        \* map.getTile(t).terType : terrain painted on each tile
    zoneOf,         \* map.getZoneID(t)
    occ,            \* map occupancy of each tile (ETileType)
    nearObj,        \* map.getTileInfo(t).getNearestObjectDistance() <= 3
    area,           \* Zone::area() of every zone
    areaPossible,   \* Zone::areaPossible()
    freePaths,      \* Zone::freePaths()
    pos,            \* Zone::getPos()
    towns,          \* TownPlacer::getTotalTowns() of every zone
    areaMutex,      \* Zone::areaMutex : "none", or the thread holding it
    lakes,          \* WaterProxy::lakes
    lakeMap,        \* WaterProxy::lakeMap
    pc,             \* position of the WaterProxy thread
    zIter,          \* process(): zones the loop of line 51 has still to visit
    tIter,          \* process(): tiles the loop of line 57 has still to visit
    cur,            \* the zone (process) / lake index (waterRoute) in hand
    dst,            \* waterRoute(): the land zone asked for
    result,         \* waterRoute(): the RouteInfo being filled
    cand,           \* placeBoat / placeShipyard: boardingPositions
    attempts,       \* history: placement attempts of the running waterRoute
    severed,        \* history: borders the running waterRoute has severed
    mutLog,         \* history: the last mutation of another zone's state
    keepRet,        \* history: what the last waterKeepConnection returned
    routes,         \* history: number of waterRoute calls made
    pipeline,       \* the modificators the template left out, by zone
    maxRoutes       \* number of waterRoute calls the pipeline makes

vars == <<terType, zoneOf, occ, nearObj, area, areaPossible, freePaths, pos,
          towns, areaMutex, lakes, lakeMap, pc, zIter, tIter, cur, dst,
          result, cand, attempts, severed, mutLog, keepRet, routes, pipeline,
          maxRoutes>>

---------------------------------------------------------------------------
(* Bounds of the model *)

\* columns of each of the two water blocks
LakeCols == 9

\* rows of the map
Rows == 3

(* Program constants *)

\* lakes with fewer tiles get neither boat nor shipyard
MinLakeSize == 25

---------------------------------------------------------------------------
(* The grid *)

MapWidth == 2 * LakeCols + 4

MidCol == LakeCols + 1

Tiles == (0 .. MapWidth - 1) \X (0 .. Rows - 1)

isOnMap(t) == t \in Tiles

\* an invalid int3
NoPos == <<-1, -1>>

LandIds == {1, 2, 3, 5}

ZoneIds == LandIds \cup {4}

\* the id of the zone this WaterProxy belongs to
zoneId == CHOOSE z \in ZoneIds : z \notin LandIds

\* the zone's terrain type and any land terrain
zoneTerrain == "water"

\* Zone::getType() of every zone
zoneType == [z \in ZoneIds |->
                IF z = 1 THEN "PLAYER_START"
                ELSE IF z = 3 THEN "CPU_START"
                ELSE IF z = zoneId THEN "WATER"
                ELSE IF z = 2 THEN "TREASURE" ELSE "JUNCTION"]

\* zones that have a WaterAdopter
hasAdopter == [z \in ZoneIds |-> z # zoneId /\ z \notin pipeline.noAdopter]

---------------------------------------------------------------------------
(* Area algebra (rmg::Area, int3) *)

Dirs8 == ((-1 .. 1) \X (-1 .. 1)) \ {<<0, 0>>}

Dirs4 == {<<0, 1>>, <<0, -1>>, <<1, 0>>, <<-1, 0>>}

Nbrs(t, dirs) == {<<t[1] + d[1], t[2] + d[2]>> : d \in dirs}

\* int3::operator< : by row, then by column
TileLess(a, b) == a[2] < b[2] \/ (a[2] = b[2] /\ a[1] < b[1])

\* *tiles.begin()
First(S) == CHOOSE t \in S : \A u \in S : u = t \/ TileLess(t, u)

getBorderOutside(a) == UNION {Nbrs(t, Dirs8) : t \in a} \ a

getBorder(a) == {t \in a : Nbrs(t, Dirs8) \ a # {}}

RECURSIVE Flood(_, _)
Flood(seen, a) ==
    LET more == (UNION {Nbrs(t, Dirs4) : t \in seen} \cap a) \ seen
    IN  IF more = {} THEN seen ELSE Flood(seen \cup more, a)

\* the maximal connected components of a, in the order of their first tiles
RECURSIVE connectedAreas(_)
connectedAreas(a) ==
    IF a = {} THEN <<>>
    ELSE LET c == Flood({First(a)}, a)
         IN  <<c>> \o connectedAreas(a \ c)

\* the BFS layers of a, from its border inwards (1-based: layer d is at d + 1)
RECURSIVE computeReverseDistanceMap(_)
computeReverseDistanceMap(a) ==
    IF a = {} THEN <<>>
    ELSE <<getBorder(a)>> \o computeReverseDistanceMap(a \ getBorder(a))

computeDistanceMap(a) ==
    LET r == computeReverseDistanceMap(a)
    IN  [t \in a |-> (CHOOSE d \in 1 .. Len(r) : t \in r[d]) - 1]

---------------------------------------------------------------------------
(* Initial states *)

EmptyRoute == [blocked |-> {}, visitable |-> NoPos, boarding |-> NoPos,
               water |-> {}]

NoMutation == [zone |-> 0, held |-> TRUE, what |-> "none"]

\* the land tiles of the left water block: the first n tiles of column 1
LeftLand(n) == {t \in Tiles : t[1] = 1 /\ t[2] < n}

LeftLandChoices == {0, 2, 3}

\* the tile of the left water block that zone 2 got and that carries water
BleedTile == <<LakeCols, 0>>

\* owner of each tile before process(): n tiles of column 1 are land of zone
\* 1, the top of the middle column is of zone m, the bleed tile of zone b
InitZoneOf(n, m, b) ==
    [t \in Tiles |->
        IF t[1] = 0 \/ t \in LeftLand(n) THEN 1
        ELSE IF t[1] = MidCol THEN (IF t[2] = 0 THEN m ELSE 2)
        ELSE IF t[1] = MapWidth - 2 THEN 3
        ELSE IF t[1] = MapWidth - 1 THEN 5
        ELSE IF t = BleedTile THEN b
        ELSE zoneId]

\* the anchors of the land zones
InitPos == [z \in ZoneIds |->
                IF z = 1 THEN <<0, 1>>
                ELSE IF z = 2 THEN <<MidCol, 1>>
                ELSE IF z = 3 THEN <<MapWidth - 2, 1>>
                ELSE IF z = 5 THEN <<MapWidth - 1, 1>>
                ELSE <<1, 1>>]

\* every modificator is there (the water zone never has a WaterAdopter)
FullPipeline == [noAdopter |-> {}, noManager |-> {}]

\* the maps: n, m, b as in InitZoneOf, tw towns in zone 2
Layouts == [n : LeftLandChoices, m : {1, 2}, b : {2, zoneId}, tw : {0, 1}]

\* a map without land in the left water block
PlainLayout == [n |-> 0, m |-> 2, b |-> zoneId, tw |-> 0]

\* a map with a lake under the size limit and a tile to claim from zone 2
SmallLakeLayout == [n |-> 3, m |-> 2, b |-> 2, tw |-> 0]

\* a scenario: a map, the pipeline, the anchor of the water zone
scenario(l, p, anchor) == [layout |-> l, pipeline |-> p, anchor |-> anchor]

\* every map with the full pipeline and the anchor at <<1, 1>>; the plain
\* map with a modificator left out; a map where the anchor of the water zone
\* is the tile it claims from zone 2
Scenarios ==
    {scenario(l, FullPipeline, <<1, 1>>) : l \in Layouts}
    \cup {scenario(PlainLayout, p, <<1, 1>>) :
            p \in {[noAdopter |-> {1}, noManager |-> {}],
                   [noAdopter |-> {}, noManager |-> {3}],
                   [noAdopter |-> {}, noManager |-> {zoneId}]}}
    \cup {scenario([PlainLayout EXCEPT !.b = 2], FullPipeline, BleedTile)}

\* the state before process() in scenario s, for a pipeline of mr waterRoute
\* calls
InitWith(s, mr) ==
    LET zo == InitZoneOf(s.layout.n, s.layout.m, s.layout.b)
        ar == [z \in ZoneIds |-> {t \in Tiles : zo[t] = z}]
        fp == [z \in ZoneIds |-> IF z \in LandIds THEN {InitPos[z]} ELSE {}]
    IN  /\ zoneOf = zo
        /\ terType = [t \in Tiles |->
                        IF t = BleedTile THEN zoneTerrain ELSE "land"]
        /\ occ = [t \in Tiles |->
                     IF t \in fp[zo[t]] THEN "FREE" ELSE "POSSIBLE"]
        /\ nearObj = [t \in Tiles |-> FALSE]
        /\ area = ar
        /\ areaPossible = [z \in ZoneIds |-> ar[z] \ fp[z]]
        /\ freePaths = fp
        /\ pos = [InitPos EXCEPT ![zoneId] = s.anchor]
        /\ towns = [z \in ZoneIds |-> IF z = 2 THEN s.layout.tw ELSE 0]
        /\ pipeline = s.pipeline
        /\ maxRoutes = mr
        /\ areaMutex = [z \in ZoneIds |-> "none"]
        /\ lakes = <<>>
        /\ lakeMap = <<>>
        /\ pc = "process"
        /\ zIter = {}
        /\ tIter = {}
        /\ cur = 0
        /\ dst = 0
        /\ result = EmptyRoute
        /\ cand = {}
        /\ attempts = <<>>
        /\ severed = {}
        /\ mutLog = NoMutation
        /\ keepRet = FALSE
        /\ routes = 0

Init == \E s \in Scenarios : InitWith(s, 1)

---------------------------------------------------------------------------
(* Zone helpers *)

Holder == "wp"

\* Zone::initFreeTiles() for zone z with anchor p, as <<areaPossible, freePaths>>
initFreeTiles(z, p) ==
    LET possible == {t \in area[z] : occ[t] = "POSSIBLE"}
    IN  IF freePaths[z] = {}
        THEN <<possible \ {p}, {p}>>
        ELSE <<possible, freePaths[z]>>

---------------------------------------------------------------------------
(* WaterProxy::collectLakes *)

\* a variant that walks getBorder(), the border tiles inside the lake
lakeBorderInside(lake) == {t \in getBorder(lake) : isOnMap(t)}

\* the tiles collectLakes files under the neighbouring zones of a lake
lakeBorder(lake) == {t \in getBorderOutside(lake) : isOnMap(t)}

neighbourZonesOf(lake) ==
    LET b == lakeBorder(lake)
    IN  [z \in {zoneOf[t] : t \in b} |-> {t \in b : zoneOf[t] = z}]

newLake(lake) ==
    [area               |-> lake,
     distanceMap        |-> computeDistanceMap(lake),
     reverseDistanceMap |-> computeReverseDistanceMap(lake),
     neighbourZones     |-> neighbourZonesOf(lake),
     keepConnections    |-> {}]

\* a variant that promotes from the first layer, the border of the lake
promotedTileOuter(l) == First(l.reverseDistanceMap[1])

\* the tile line 116 promotes into freePaths for a lake without a free tile
promotedTile(l) ==
    First(l.reverseDistanceMap[Len(l.reverseDistanceMap)])

\* freePaths after the lakes ls[i..] were handled, starting from free
RECURSIVE freeAfterLakes(_, _, _)
freeAfterLakes(ls, i, free) ==
    IF i > Len(ls) THEN free
    ELSE freeAfterLakes(ls, i + 1,
            IF ls[i].area \cap free # {} THEN free
            ELSE free \cup {promotedTile(ls[i])})

\* a variant that gives every lake the whole area instead of its component
collectLakesWhole(a) ==
    LET cs == connectedAreas(a)
    IN  [i \in 1 .. Len(cs) |-> newLake(a)]

\* the lakes of area a, in the order connectedAreas yields them
collectLakes(a) ==
    LET cs == connectedAreas(a)
    IN  [i \in 1 .. Len(cs) |-> newLake(cs[i])]

\* lakeMap of the lakes ls: lake ids count from 0
lakeMapOf(ls) ==
    [t \in UNION {ls[i].area : i \in 1 .. Len(ls)} |->
        (CHOOSE i \in 1 .. Len(ls) : t \in ls[i].area) - 1]

---------------------------------------------------------------------------
(* WaterProxy::process *)

routeVars == <<dst, result, cand, attempts, severed, keepRet, routes>>

\* lines 35-49: own tiles get the zone id and POSSIBLE; the terrain is drawn
ProcessStart ==
    /\ pc = "process"
    /\ zoneOf' = [t \in Tiles |-> IF t \in area[zoneId] THEN zoneId ELSE zoneOf[t]]
    /\ occ' = [t \in Tiles |-> IF t \in area[zoneId] THEN "POSSIBLE" ELSE occ[t]]
    /\ terType' = [t \in Tiles |->
                      IF t \in area[zoneId] THEN zoneTerrain ELSE terType[t]]
    /\ zIter' = ZoneIds
    /\ pc' = "zones"
    /\ UNCHANGED <<nearObj, area, areaPossible, freePaths, pos, towns, pipeline, maxRoutes,
                   areaMutex, lakes, lakeMap, tIter, cur, mutLog>>
    /\ UNCHANGED routeVars

gridVars == <<terType, zoneOf, occ, nearObj>>

zoneVars == <<area, areaPossible, freePaths, pos, towns, pipeline, maxRoutes>>

\* the next zone of map.getZones(), a std::map ordered by id
nextZone == CHOOSE z \in zIter : \A y \in zIter : z <= y

\* lines 53-54: the zone itself is passed over
ProcessSkipOwn ==
    /\ pc = "zones" /\ zIter # {} /\ nextZone = zoneId
    /\ zIter' = zIter \ {nextZone}
    /\ UNCHANGED <<gridVars, zoneVars, areaMutex, lakes, lakeMap, pc, tIter,
                   cur, mutLog>>
    /\ UNCHANGED routeVars

\* line 56: Zone::Lock lock(z.second->areaMutex), taken once the mutex is free;
\* line 57 then reads the tiles of the sibling
ProcessLock ==
    /\ pc = "zones" /\ zIter # {} /\ nextZone # zoneId
    /\ areaMutex[nextZone] = "none"
    /\ areaMutex' = [areaMutex EXCEPT ![nextZone] = Holder]
    /\ cur' = nextZone
    /\ zIter' = zIter \ {nextZone}
    /\ tIter' = area[nextZone]
    /\ pc' = "tiles"
    /\ UNCHANGED <<gridVars, zoneVars, lakes, lakeMap, mutLog>>
    /\ UNCHANGED routeVars

\* line 59 on a tile that does not carry the zone's terrain
ProcessKeepTile ==
    /\ pc = "tiles" /\ tIter # {}
    /\ terType[First(tIter)] # zoneTerrain
    /\ tIter' = tIter \ {First(tIter)}
    /\ UNCHANGED <<gridVars, zoneVars, areaMutex, lakes, lakeMap, pc, zIter,
                   cur, mutLog>>
    /\ UNCHANGED routeVars

\* what a step on state of zone z records: whether z's mutex was held
mutation(z, what) == [zone |-> z, held |-> areaMutex[z] = Holder, what |-> what]

\* line 59 on a tile of the zone's terrain, and line 61
ProcessErasePossible ==
    /\ pc = "tiles" /\ tIter # {}
    /\ terType[First(tIter)] = zoneTerrain
    /\ areaPossible' = [areaPossible EXCEPT ![cur] = @ \ {First(tIter)}]
    /\ mutLog' = mutation(cur, "areaPossible.erase")
    /\ pc' = "eraseArea"
    /\ UNCHANGED <<gridVars, area, freePaths, pos, towns, pipeline, maxRoutes, areaMutex, lakes,
                   lakeMap, zIter, tIter, cur>>
    /\ UNCHANGED routeVars

\* line 62
ProcessEraseArea ==
    /\ pc = "eraseArea"
    /\ area' = [area EXCEPT ![cur] = @ \ {First(tIter)}]
    /\ mutLog' = mutation(cur, "area.erase")
    /\ pc' = "addArea"
    /\ UNCHANGED <<gridVars, areaPossible, freePaths, pos, towns, pipeline, maxRoutes, areaMutex,
                   lakes, lakeMap, zIter, tIter, cur>>
    /\ UNCHANGED routeVars

\* line 63
ProcessAddArea ==
    /\ pc = "addArea"
    /\ area' = [area EXCEPT ![zoneId] = @ \cup {First(tIter)}]
    /\ pc' = "addPossible"
    /\ UNCHANGED <<gridVars, areaPossible, freePaths, pos, towns, pipeline, maxRoutes, areaMutex,
                   lakes, lakeMap, zIter, tIter, cur, mutLog>>
    /\ UNCHANGED routeVars

\* line 64
ProcessAddPossible ==
    /\ pc = "addPossible"
    /\ areaPossible' = [areaPossible EXCEPT ![zoneId] = @ \cup {First(tIter)}]
    /\ pc' = "setZoneID"
    /\ UNCHANGED <<gridVars, area, freePaths, pos, towns, pipeline, maxRoutes, areaMutex, lakes,
                   lakeMap, zIter, tIter, cur, mutLog>>
    /\ UNCHANGED routeVars

\* line 65
ProcessSetZoneID ==
    /\ pc = "setZoneID"
    /\ zoneOf' = [zoneOf EXCEPT ![First(tIter)] = zoneId]
    /\ mutLog' = mutation(cur, "setZoneID")
    /\ pc' = "setOccupied"
    /\ UNCHANGED <<terType, occ, nearObj, zoneVars, areaMutex, lakes, lakeMap,
                   zIter, tIter, cur>>
    /\ UNCHANGED routeVars

\* line 66, and on to the next tile
ProcessSetOccupied ==
    /\ pc = "setOccupied"
    /\ occ' = [occ EXCEPT ![First(tIter)] = "POSSIBLE"]
    /\ mutLog' = mutation(cur, "setOccupied")
    /\ tIter' = tIter \ {First(tIter)}
    /\ pc' = "tiles"
    /\ UNCHANGED <<terType, zoneOf, nearObj, zoneVars, areaMutex, lakes,
                   lakeMap, zIter, cur>>
    /\ UNCHANGED routeVars

\* a variant in which the lock outlives the iteration
ProcessUnlockKeeping ==
    /\ pc = "tiles" /\ tIter = {}
    /\ pc' = "zones"
    /\ UNCHANGED <<gridVars, zoneVars, areaMutex, lakes, lakeMap, zIter, tIter,
                   cur, mutLog>>
    /\ UNCHANGED routeVars

\* line 69: the lock goes out of scope at the end of the sibling's iteration
ProcessUnlock ==
    /\ pc = "tiles" /\ tIter = {}
    /\ areaMutex' = [areaMutex EXCEPT ![cur] = "none"]
    /\ pc' = "zones"
    /\ UNCHANGED <<gridVars, zoneVars, lakes, lakeMap, zIter, tIter, cur,
                   mutLog>>
    /\ UNCHANGED routeVars

\* a variant without the test of line 71: the anchor is always reassigned
newPosFront == First(area[zoneId])

\* the anchor after lines 71-74
newPos == IF pos[zoneId] \in area[zoneId] THEN pos[zoneId]
          ELSE First(area[zoneId])

\* lines 71-78: the anchor, initFreeTiles and collectLakes
ProcessFinish ==
    /\ pc = "zones" /\ zIter = {}
    /\ LET ift == initFreeTiles(zoneId, newPos)
           ls  == collectLakes(area[zoneId])
       IN  /\ pos' = [pos EXCEPT ![zoneId] = newPos]
           /\ areaPossible' = [areaPossible EXCEPT ![zoneId] = ift[1]]
           /\ lakes' = lakes \o ls
           /\ lakeMap' = lakeMapOf(ls)
           /\ freePaths' = [freePaths EXCEPT
                                ![zoneId] = freeAfterLakes(ls, 1, ift[2])]
    /\ pc' = "idle"
    /\ UNCHANGED <<gridVars, area, towns, pipeline, maxRoutes, areaMutex, zIter, tIter, cur, mutLog>>
    /\ UNCHANGED routeVars

process ==
    \/ ProcessStart
    \/ ProcessSkipOwn
    \/ ProcessLock
    \/ ProcessKeepTile
    \/ ProcessErasePossible
    \/ ProcessEraseArea
    \/ ProcessAddArea
    \/ ProcessAddPossible
    \/ ProcessSetZoneID
    \/ ProcessSetOccupied
    \/ ProcessUnlock
    \/ ProcessFinish

---------------------------------------------------------------------------
(* The modificators of the land zones run on other threads and take and    *)
(* release the area mutex of their zone.  Only a mutex that WaterProxy is  *)
(* about to ask for makes a difference to it.                              *)

\* the zone whose mutex WaterProxy asks for next, if any
wanted ==
    IF pc = "zones" /\ zIter # {} /\ nextZone # zoneId THEN {nextZone}
    ELSE IF pc = "severLock" THEN {dst}
    ELSE {}

OtherLock(z) ==
    /\ z \in wanted
    /\ areaMutex[z] = "none"
    /\ areaMutex' = [areaMutex EXCEPT ![z] = "other"]
    /\ UNCHANGED <<gridVars, zoneVars, lakes, lakeMap, pc, zIter, tIter, cur,
                   mutLog>>
    /\ UNCHANGED routeVars

OtherUnlock(z) ==
    /\ areaMutex[z] = "other"
    /\ areaMutex' = [areaMutex EXCEPT ![z] = "none"]
    /\ UNCHANGED <<gridVars, zoneVars, lakes, lakeMap, pc, zIter, tIter, cur,
                   mutLog>>
    /\ UNCHANGED routeVars

---------------------------------------------------------------------------
(* WaterProxy::waterKeepConnection *)

\* the lakes that border both zones, by index
bordersBoth(a, b) ==
    {i \in 1 .. Len(lakes) : a \in DOMAIN lakes[i].neighbourZones
                             /\ b \in DOMAIN lakes[i].neighbourZones}

\* a variant without the return inside the loop
keptLakesAll(a, b) == bordersBoth(a, b)

\* the lakes the call writes to: the loop returns at the first that borders both
keptLakes(a, b) ==
    IF bordersBoth(a, b) = {} THEN {}
    ELSE {CHOOSE i \in bordersBoth(a, b) : \A j \in bordersBoth(a, b) : i <= j}

waterKeepConnection(zoneA, zoneB) ==
    /\ pc = "idle"
    /\ lakes' = [i \in 1 .. Len(lakes) |->
                    IF i \in keptLakes(zoneA, zoneB)
                    THEN [lakes[i] EXCEPT !.keepConnections = @ \cup {zoneA, zoneB}]
                    ELSE lakes[i]]
    /\ keepRet' = (bordersBoth(zoneA, zoneB) # {})
    /\ UNCHANGED <<gridVars, zoneVars, areaMutex, lakeMap, pc, zIter, tIter,
                   cur, dst, result, cand, attempts, severed, mutLog, routes>>

---------------------------------------------------------------------------
(* WaterProxy::dump *)

DigitChars == <<"0", "1", "2", "3", "4", "5", "6", "7", "8", "9">>

\* std::to_string(n)[0]
RECURSIVE firstChar(_)
firstChar(n) == IF n < 10 THEN DigitChars[n + 1] ELSE firstChar(n \div 10)

\* line 394: the character for a tile on the border with zone z of lake l
borderChar(l, z) == IF z \in l.keepConnections THEN firstChar(z) ELSE "="

dump(t) ==
    IF t \notin DOMAIN lakeMap THEN "?"
    ELSE LET lake == lakes[lakeMap[t] + 1]
             hit  == {z \in DOMAIN lake.neighbourZones : t \in lake.neighbourZones[z]}
         IN  IF hit # {}
             THEN borderChar(lake, CHOOSE z \in hit : \A y \in hit : z <= y)
             ELSE "~"

---------------------------------------------------------------------------
(* Collaborators of the placement searches: Zone, ObjectManager, WaterAdopter *)

\* WaterAdopter::getCoastTiles : the tiles of z next to water
coastTiles(z) ==
    {t \in area[z] : \E u \in Nbrs(t, Dirs8) \cap Tiles : terType[u] = zoneTerrain}

\* zones that have an ObjectManager
hasManager == [z \in ZoneIds |-> z \notin pipeline.noManager]

\* Zone::connectPath of zone z on the tiles of a path, on a zone state
\* zs = [possible, free, occ]
connectPath(zs, z, path) ==
    [possible |-> [zs.possible EXCEPT ![z] = @ \ path],
     free     |-> [zs.free EXCEPT ![z] = @ \cup path],
     occ      |-> [t \in Tiles |-> IF t \in path THEN "FREE" ELSE zs.occ[t]]]

\* ObjectManager::placeObject of zone z for an object covering obj
placeObject(zs, z, obj) ==
    [possible |-> [zs.possible EXCEPT ![z] = @ \ obj],
     free     |-> zs.free,
     occ      |-> [t \in Tiles |-> IF t \in obj THEN "USED" ELSE zs.occ[t]]]

\* ObjectManager::updateDistances of zone z around an object at tile p
updateDistances(z, p) ==
    [t \in Tiles |->
        nearObj[t] \/ (t \in areaPossible[z] /\
            (t[1] - p[1]) * (t[1] - p[1]) + (t[2] - p[2]) * (t[2] - p[2]) <= 9)]

---------------------------------------------------------------------------
(* WaterProxy::placeBoat *)

\* line 239
boatWaterAvailable == areaPossible[zoneId] \cup freePaths[zoneId]

\* lines 258-260: the water next to a boarding position
shipPositionsOf(t, waterAvailable) == getBorderOutside({t}) \cap waterAvailable

\* a variant without line 241: every border tile counts as coast
coastOfWholeBorder(land, lake) == lake.neighbourZones[land]

\* lines 240-241
coastOf(land, lake) ==
    lake.neighbourZones[land] \cap (areaPossible[land] \cup freePaths[land])

\* lines 214-252: the boarding positions the search starts from
boatBoarding(land, lake) ==
    IF ~hasManager[zoneId] THEN {}
    ELSE {t \in coastOf(land, lake) :
            /\ ~nearObj[t]
            /\ shipPositionsOf(t, boatWaterAvailable) # {}}

\* ObjectManager::placeAndConnectObject: where in shipPositions the boat is put
boatPlace(shipPositions) == First(shipPositions)

\* a variant that reports the tile of the boat as the boarding tile
boatInfoBoardingAtBoat(p, boardingPosition, shipPositions) ==
    [blocked |-> {p}, visitable |-> p, boarding |-> p, water |-> shipPositions]

\* lines 276-279
boatInfo(p, boardingPosition, shipPositions) ==
    [blocked |-> {p}, visitable |-> p, boarding |-> boardingPosition,
     water |-> shipPositions]

---------------------------------------------------------------------------
(* WaterProxy::placeShipyard *)

\* lines 305-306
yardWaterAvailable(lake) ==
    (areaPossible[zoneId] \cup freePaths[zoneId]) \cap lake.area

\* lines 293-315: the boarding positions the search starts from
yardBoarding(land, lake) ==
    IF ~hasManager[land] THEN {}
    ELSE {t \in coastOf(land, lake) :
            shipPositionsOf(t, yardWaterAvailable(lake)) # {}}

\* lines 331-340: the places of the land zone the acceptance function takes
yardPlaces(land, boardingPosition, shipPositions) ==
    {p \in areaPossible[land] :
        /\ boardingPosition \in getBorderOutside({p})
        /\ getBorderOutside({p}) \cap shipPositions # {}}

\* ObjectManager::placeAndConnectObject: where the shipyard is put
yardPlace(land, boardingPosition, shipPositions) ==
    First(yardPlaces(land, boardingPosition, shipPositions))

\* lines 350-352
shipyardOutToBlock(p, waterAvailable, shipPositions) ==
    (getBorderOutside({p}) \cap waterAvailable) \ shipPositions

\* lines 353, 366-369
yardInfo(p, boardingPosition, waterAvailable, shipPositions) ==
    [blocked |-> {p}, visitable |-> p, boarding |-> boardingPosition,
     water |-> shipPositions
                 \ shipyardOutToBlock(p, waterAvailable, shipPositions)]

---------------------------------------------------------------------------
(* WaterProxy::waterRoute *)

procVars == <<zIter, tIter>>

\* lines 124-131: the zone has no WaterAdopter, or no coast
RouteNoCoast(d) ==
    /\ pc = "idle" /\ routes < maxRoutes
    /\ ~hasAdopter[d] \/ coastTiles(d) = {}
    /\ dst' = d
    /\ result' = EmptyRoute
    /\ attempts' = <<>>
    /\ severed' = {}
    /\ routes' = routes + 1
    /\ UNCHANGED <<gridVars, zoneVars, areaMutex, lakes, lakeMap, pc, procVars,
                   cur, cand, mutLog, keepRet>>

\* lines 124-134: the loop over the lakes starts
RouteEnter(d) ==
    /\ pc = "idle" /\ routes < maxRoutes
    /\ hasAdopter[d] /\ coastTiles(d) # {}
    /\ dst' = d
    /\ result' = EmptyRoute
    /\ attempts' = <<>>
    /\ severed' = {}
    /\ routes' = routes + 1
    /\ cur' = 1
    /\ pc' = "lakes"
    /\ UNCHANGED <<gridVars, zoneVars, areaMutex, lakes, lakeMap, procVars,
                   cand, mutLog, keepRet>>

inLoop == pc = "lakes" /\ cur <= Len(lakes)

\* a variant that asks whether the lake has any neighbour zone
bordersSomeZone == DOMAIN lakes[cur].neighbourZones # {}

\* line 136: lake.neighbourZones.count(dst.getId())
borders == dst \in DOMAIN lakes[cur].neighbourZones

\* lines 140, 147: lake.neighbourZones[dst.getId()], which is an empty area
\* for a key the map does not hold
borderTiles(lake, d) ==
    IF d \in DOMAIN lake.neighbourZones THEN lake.neighbourZones[d] ELSE {}

kept == dst \in lakes[cur].keepConnections

\* line 136: the lake does not border dst
RouteOtherLake ==
    /\ inLoop /\ ~borders
    /\ cur' = cur + 1
    /\ UNCHANGED <<gridVars, zoneVars, areaMutex, lakes, lakeMap, pc, procVars,
                   dst, result, cand, attempts, severed, mutLog, keepRet,
                   routes>>

\* a variant of the severing that marks nothing
severTilesNone(lake, d) == {}

\* lines 140-144: the tiles the severing marks BLOCKED
severTiles(lake, d) == {ct \in borderTiles(lake, d) : occ[ct] = "POSSIBLE"}

\* lines 138-144: the border tiles of dst are blocked on the map
RouteSeverBlock ==
    /\ inLoop /\ borders /\ ~kept
    /\ occ' = [t \in Tiles |->
                  IF t \in severTiles(lakes[cur], dst) THEN "BLOCKED" ELSE occ[t]]
    /\ mutLog' = mutation(dst, "setOccupied")
    /\ severed' = severed \cup
            {[lake |-> cur, possible |-> severTiles(lakes[cur], dst), done |-> FALSE]}
    /\ pc' = "severLock"
    /\ UNCHANGED <<terType, zoneOf, nearObj, zoneVars, areaMutex, lakes,
                   lakeMap, procVars, cur, dst, result, cand, attempts,
                   keepRet, routes>>

\* line 146: Zone::Lock lock(dst.areaMutex)
RouteSeverLock ==
    /\ pc = "severLock"
    /\ areaMutex[dst] = "none"
    /\ areaMutex' = [areaMutex EXCEPT ![dst] = Holder]
    /\ pc' = "severSubtract"
    /\ UNCHANGED <<gridVars, zoneVars, lakes, lakeMap, procVars, cur, dst,
                   result, cand, attempts, severed, mutLog, keepRet, routes>>

\* line 147
RouteSeverSubtract ==
    /\ pc = "severSubtract"
    /\ areaPossible' = [areaPossible EXCEPT
                            ![dst] = @ \ borderTiles(lakes[cur], dst)]
    /\ mutLog' = mutation(dst, "areaPossible.subtract")
    /\ pc' = "severUnlock"
    /\ UNCHANGED <<gridVars, area, freePaths, pos, towns, pipeline, maxRoutes, areaMutex, lakes,
                   lakeMap, procVars, cur, dst, result, cand, attempts,
                   severed, keepRet, routes>>

\* line 148: continue, which ends the scope of the lock
RouteSeverUnlock ==
    /\ pc = "severUnlock"
    /\ areaMutex' = [areaMutex EXCEPT ![dst] = "none"]
    /\ severed' = {[r EXCEPT !.done = (r.done \/ r.lake = cur)] : r \in severed}
    /\ cur' = cur + 1
    /\ pc' = "lakes"
    /\ UNCHANGED <<gridVars, zoneVars, lakes, lakeMap, procVars, dst, result,
                   cand, attempts, mutLog, keepRet, routes>>

\* a variant with <= in place of <
verySmallOrEqual(lake) == Cardinality(lake.area) <= MinLakeSize

\* line 152
verySmall(lake) == Cardinality(lake.area) < MinLakeSize

\* lines 152-156: a very small lake is passed over
RouteSmallLake ==
    /\ inLoop /\ borders /\ kept
    /\ verySmall(lakes[cur])
    /\ cur' = cur + 1
    /\ UNCHANGED <<gridVars, zoneVars, areaMutex, lakes, lakeMap, pc, procVars,
                   dst, result, cand, attempts, severed, mutLog, keepRet,
                   routes>>

\* a variant that forgets the towns of the zone
shipyardFirstNoTowns(d) ==
    zoneType[d] = "PLAYER_START" \/ zoneType[d] = "CPU_START"

\* lines 158-162
shipyardFirst(d) ==
    zoneType[d] = "PLAYER_START" \/ zoneType[d] = "CPU_START" \/ towns[d] # 0

\* line 164: placeShipyard is entered
RouteShipyard ==
    /\ inLoop /\ borders /\ kept
    /\ ~verySmall(lakes[cur])
    /\ shipyardFirst(dst)
    /\ cand' = yardBoarding(dst, lakes[cur])
    /\ pc' = "shipyard"
    /\ UNCHANGED <<gridVars, zoneVars, areaMutex, lakes, lakeMap, procVars,
                   cur, dst, result, attempts, severed, mutLog, keepRet,
                   routes>>

\* line 183: placeBoat is entered
RouteBoat ==
    /\ inLoop /\ borders /\ kept
    /\ ~verySmall(lakes[cur])
    /\ ~shipyardFirst(dst)
    /\ cand' = boatBoarding(dst, lakes[cur])
    /\ pc' = "boat"
    /\ UNCHANGED <<gridVars, zoneVars, areaMutex, lakes, lakeMap, procVars,
                   cur, dst, result, attempts, severed, mutLog, keepRet,
                   routes>>

\* line 195
RouteReturn ==
    /\ pc = "lakes" /\ cur > Len(lakes)
    /\ pc' = "idle"
    /\ UNCHANGED <<gridVars, zoneVars, areaMutex, lakes, lakeMap, procVars,
                   cur, dst, result, cand, attempts, severed, mutLog, keepRet,
                   routes>>

attempt(kind, ok) == [lake |-> cur, kind |-> kind, ok |-> ok]

\* a variant that takes the last of the boarding positions
lastCandidate(boardingPositions) ==
    CHOOSE t \in boardingPositions :
        \A u \in boardingPositions : u = t \/ TileLess(u, t)

\* lines 256, 319: *boardingPositions.getTiles().begin()
nextCandidate(boardingPositions) == First(boardingPositions)

---------------------------------------------------------------------------
(* The candidate loop of placeShipyard, lines 317-381 *)

\* lines 324-328, 356-360: no water next to the candidate, or the object, the
\* path to the boarding position or the path to the boat is not valid
ShipyardDiscard ==
    /\ pc = "shipyard" /\ cand # {}
    /\ cand' = cand \ {nextCandidate(cand)}
    /\ UNCHANGED <<gridVars, zoneVars, areaMutex, lakes, lakeMap, pc, procVars,
                   cur, dst, result, attempts, severed, mutLog, keepRet,
                   routes>>

\* lines 362-378: all three are valid
ShipyardCommit ==
    /\ pc = "shipyard" /\ cand # {}
    /\ LET bp    == nextCandidate(cand)
           wa    == yardWaterAvailable(lakes[cur])
           sp    == shipPositionsOf(bp, wa)
           p     == yardPlace(dst, bp, sp)
           info  == yardInfo(p, bp, wa, sp)
           out   == shipyardOutToBlock(p, wa, sp)
           zs0   == [possible |-> areaPossible, free |-> freePaths, occ |-> occ]
           zs1   == connectPath(zs0, dst, {bp})
           zs2   == connectPath(zs1, zoneId, {First(info.water)})
           zs3   == placeObject(zs2, dst, {p})
       IN  /\ sp # {}
           /\ yardPlaces(dst, bp, sp) # {}
           /\ result' = info
           /\ areaPossible' = [zs3.possible EXCEPT ![zoneId] = @ \ out]
           /\ freePaths' = zs3.free
           /\ occ' = [t \in Tiles |->
                        IF t \in out /\ isOnMap(t) /\ zs3.occ[t] = "POSSIBLE"
                        THEN "BLOCKED" ELSE zs3.occ[t]]
           /\ nearObj' = updateDistances(dst, p)
    /\ attempts' = Append(attempts, attempt("shipyard", TRUE))
    /\ cur' = cur + 1
    /\ pc' = "lakes"
    /\ UNCHANGED <<terType, zoneOf, area, pos, towns, pipeline, maxRoutes, areaMutex, lakes,
                   lakeMap, procVars, dst, cand, severed, mutLog, keepRet,
                   routes>>

\* lines 381, 168-171: the candidates are exhausted; placeBoat is entered
ShipyardFail ==
    /\ pc = "shipyard" /\ cand = {}
    /\ attempts' = Append(attempts, attempt("shipyard", FALSE))
    /\ cand' = boatBoarding(dst, lakes[cur])
    /\ pc' = "boat"
    /\ UNCHANGED <<gridVars, zoneVars, areaMutex, lakes, lakeMap, procVars,
                   cur, dst, result, severed, mutLog, keepRet, routes>>

---------------------------------------------------------------------------
(* The candidate loop of placeBoat, lines 254-288 *)

\* a variant of the discard that has connected the land path before the
\* checks
BoatDiscardConnecting ==
    /\ pc = "boat" /\ cand # {}
    /\ cand' = cand \ {nextCandidate(cand)}
    /\ freePaths' = [freePaths EXCEPT ![dst] = @ \cup {nextCandidate(cand)}]
    /\ UNCHANGED <<gridVars, area, areaPossible, pos, towns, pipeline,
                   maxRoutes, areaMutex, lakes, lakeMap, pc, procVars, cur,
                   dst, result, attempts, severed, mutLog, keepRet, routes>>

\* lines 261-265, 270-274: no water next to the candidate, or the path of the
\* object or the land path is not valid
BoatDiscard ==
    /\ pc = "boat" /\ cand # {}
    /\ cand' = cand \ {nextCandidate(cand)}
    /\ UNCHANGED <<gridVars, zoneVars, areaMutex, lakes, lakeMap, pc, procVars,
                   cur, dst, result, attempts, severed, mutLog, keepRet,
                   routes>>

\* line 284: land.getModificator<ObjectManager>()->updateDistances(rmgObject)
\* is a call through a null pointer when the land zone has no ObjectManager:
\* the call may end the program or may go by without an update
updateOutcomes(land) ==
    IF hasManager[land] THEN {"updated"} ELSE {"crashed", "skipped"}

\* lines 276-285: both paths are valid
BoatCommit ==
    /\ pc = "boat" /\ cand # {}
    /\ LET bp   == nextCandidate(cand)
           sp   == shipPositionsOf(bp, boatWaterAvailable)
           p    == boatPlace(sp)
           zs0  == [possible |-> areaPossible, free |-> freePaths, occ |-> occ]
           zs1  == connectPath(zs0, zoneId, sp \ {p})
           zs2  == connectPath(zs1, dst, {bp})
           zs3  == placeObject(zs2, zoneId, {p})
       IN  /\ sp # {}
           /\ result' = boatInfo(p, bp, sp)
           /\ areaPossible' = zs3.possible
           /\ freePaths' = zs3.free
           /\ occ' = zs3.occ
           /\ \E outcome \in updateOutcomes(dst) :
                 /\ nearObj' = IF outcome = "updated"
                               THEN updateDistances(dst, p) ELSE nearObj
                 /\ IF outcome = "crashed"
                    THEN pc' = "crashed" /\ cur' = cur
                    ELSE pc' = "lakes" /\ cur' = cur + 1
    /\ attempts' = Append(attempts, attempt("boat", TRUE))
    /\ UNCHANGED <<terType, zoneOf, area, pos, towns, pipeline, maxRoutes,
                   areaMutex, lakes, lakeMap, procVars, dst, cand, severed,
                   mutLog, keepRet, routes>>

\* a variant that hands back an empty RouteInfo after a failure
BoatFailClearing ==
    /\ pc = "boat" /\ cand = {}
    /\ attempts' = Append(attempts, attempt("boat", FALSE))
    /\ result' = EmptyRoute
    /\ cur' = cur + 1
    /\ pc' = "lakes"
    /\ UNCHANGED <<gridVars, zoneVars, areaMutex, lakes, lakeMap, procVars,
                   dst, cand, severed, mutLog, keepRet, routes>>

\* line 288: the candidates are exhausted
BoatFail ==
    /\ pc = "boat" /\ cand = {}
    /\ attempts' = Append(attempts, attempt("boat", FALSE))
    /\ cur' = cur + 1
    /\ pc' = "lakes"
    /\ UNCHANGED <<gridVars, zoneVars, areaMutex, lakes, lakeMap, procVars,
                   dst, result, cand, severed, mutLog, keepRet, routes>>

waterRoute ==
    \/ \E d \in ZoneIds : RouteNoCoast(d)
    \/ \E d \in ZoneIds : RouteEnter(d)
    \/ RouteOtherLake
    \/ RouteSeverBlock
    \/ RouteSeverLock
    \/ RouteSeverSubtract
    \/ RouteSeverUnlock
    \/ RouteSmallLake
    \/ RouteShipyard
    \/ RouteBoat
    \/ RouteReturn
    \/ ShipyardDiscard
    \/ ShipyardCommit
    \/ ShipyardFail
    \/ BoatDiscard
    \/ BoatCommit
    \/ BoatFail

---------------------------------------------------------------------------
Next ==
    \/ process
    \/ \E a, b \in ZoneIds : a # b /\ waterKeepConnection(a, b)
    \/ waterRoute
    \/ \E z \in LandIds : OtherLock(z)
    \/ \E z \in LandIds : OtherUnlock(z)

Spec == Init /\ [][Next]_vars

---------------------------------------------------------------------------
(* Properties *)

\* process() has run to its end
processDone == pc \notin {"process", "zones", "tiles", "eraseArea", "addArea",
                          "addPossible", "setZoneID", "setOccupied"}

lakeIds == 1 .. Len(lakes)

\* the lakes that hold tile t
lakesOf(t) == {i \in lakeIds : t \in lakes[i].area}

\* C1: after process() every tile of the zone's area, the tiles claimed from
\* the siblings included, is in exactly one lake, and no two lakes share a tile
C1_LakesPartitionArea ==
    processDone =>
        /\ \A t \in area[zoneId] : Cardinality(lakesOf(t)) = 1
        /\ \A i, j \in lakeIds : i # j => lakes[i].area \cap lakes[j].area = {}

\* process() is over, it has claimed the bleed tile from zone 2, and the
\* tile lies in the first of two lakes
C1_Witness ==
    /\ pc = "idle" /\ routes = 0
    /\ Len(lakes) = 2
    /\ mutLog.zone = 2 /\ mutLog.what = "setOccupied"
    /\ BleedTile \in lakes[1].area /\ BleedTile \in area[zoneId]

\* the deepest BFS layer of a lake
deepest(l) == l.reverseDistanceMap[Len(l.reverseDistanceMap)]

\* C2: every lake shares a tile with freePaths of the zone; a lake that had
\* none (the anchor, the only free tile after initFreeTiles, is not in it) got
\* exactly one, a tile of its deepest layer and so of the lake itself
C2_LakeHasFreeTile ==
    processDone =>
        \A i \in lakeIds :
            /\ lakes[i].area \cap freePaths[zoneId] # {}
            /\ (routes = 0 /\ pos[zoneId] \notin lakes[i].area) =>
                  /\ Cardinality(lakes[i].area \cap freePaths[zoneId]) = 1
                  /\ lakes[i].area \cap freePaths[zoneId] \subseteq deepest(lakes[i])
                  /\ deepest(lakes[i]) \subseteq lakes[i].area

\* a lake of two layers without the anchor has its free tile in the inner layer
C2_Witness ==
    /\ pc = "idle" /\ routes = 0
    /\ \E i \in lakeIds :
          /\ pos[zoneId] \notin lakes[i].area
          /\ Len(lakes[i].reverseDistanceMap) = 2
          /\ freePaths[zoneId] \cap lakes[i].reverseDistanceMap[2] # {}

\* C3: the border tiles a lake records for a neighbouring zone are not tiles
\* of the lake
C3_BorderDisjoint ==
    \A i \in lakeIds :
        \A z \in DOMAIN lakes[i].neighbourZones :
            lakes[i].neighbourZones[z] \cap lakes[i].area = {}

\* a lake that records border tiles for three zones
C3_Witness ==
    \E i \in lakeIds :
        /\ Cardinality(DOMAIN lakes[i].neighbourZones) = 3
        /\ \A z \in DOMAIN lakes[i].neighbourZones :
              lakes[i].neighbourZones[z] # {}

\* waterRoute is running
routing == pc \in {"lakes", "severLock", "severSubtract", "severUnlock",
                   "shipyard", "boat"}

\* the placement attempts made for lake i, in order
attemptsOf(i) == SelectSeq(attempts, LAMBDA r : r.lake = i)

\* the borders whose severing is complete
severedDone == {r \in severed : r.done}

\* C4 as stated: once waterRoute(dst) has severed the border of a lake, every
\* tile of lake.neighbourZones[dst] is Blocked on the map and out of dst's
\* areaPossible, and no placement was attempted for the lake
C4_SeverBlocksEveryTile ==
    \A r \in severedDone :
        /\ \A t \in lakes[r.lake].neighbourZones[dst] :
              occ[t] = "BLOCKED" /\ t \notin areaPossible[dst]
        /\ attemptsOf(r.lake) = <<>>

\* C4, amended: once waterRoute(dst) has severed the border of a lake, every
\* tile of lake.neighbourZones[dst] is out of dst's areaPossible and none is
\* Possible on the map: those that were Possible are Blocked (a tile that was
\* Free or taken by an object is not marked); no placement was attempted for
\* the lake
C4_SeverBlocksPossibleTiles ==
    \A r \in severedDone :
        /\ \A t \in lakes[r.lake].neighbourZones[dst] :
              /\ t \notin areaPossible[dst]
              /\ occ[t] # "POSSIBLE"
              /\ t \in r.possible => occ[t] = "BLOCKED"
        /\ attemptsOf(r.lake) = <<>>

\* a severed border with tiles that were Possible and a tile that was not
C4_Witness ==
    \E r \in severedDone :
        /\ r.possible # {}
        /\ lakes[r.lake].neighbourZones[dst] \ r.possible # {}
        /\ pc = "idle"

\* C5: once waterKeepConnection has put zones into the keepConnections of a
\* lake, dump(t) of every tile t on the border of that lake with such a zone
\* is the kept-connection marker "="
C5_DumpShowsKeptBorder ==
    \A i \in lakeIds :
        \A z \in lakes[i].keepConnections \cap DOMAIN lakes[i].neighbourZones :
            \A t \in lakes[i].neighbourZones[z] : dump(t) = "="

\* what a waterKeepConnection(a, b) step returns
returnsRight(a, b) == keepRet' = (bordersBoth(a, b) # {})

\* a waterKeepConnection(a, b) step that returns false changes no lake
falseChangesNothing(a, b) == ~keepRet' => lakes' = lakes

\* C6 as stated: waterKeepConnection(a, b) returns true iff a lake borders
\* both zones; then every lake that borders both has both ids in its
\* keepConnections; when it returns false no keepConnections changes
C6_KeepsEveryLake ==
    [][\A a, b \in ZoneIds :
          (a # b /\ waterKeepConnection(a, b)) =>
              /\ returnsRight(a, b)
              /\ keepRet' => \A i \in bordersBoth(a, b) :
                                {a, b} \subseteq lakes'[i].keepConnections
              /\ falseChangesNothing(a, b)]_vars

\* the first lake, in list order, that borders both zones
firstBoth(a, b) == CHOOSE i \in bordersBoth(a, b) : \A j \in bordersBoth(a, b) : i <= j

\* C6, amended: waterKeepConnection(a, b) returns true iff a lake borders both
\* zones; then the first such lake in list order has both ids in its
\* keepConnections and no other lake is changed; when it returns false no
\* lake is changed
C6_KeepsFirstLake ==
    [][\A a, b \in ZoneIds :
          (a # b /\ waterKeepConnection(a, b)) =>
              /\ returnsRight(a, b)
              /\ keepRet' =>
                    /\ lakes'[firstBoth(a, b)].keepConnections =
                          lakes[firstBoth(a, b)].keepConnections \cup {a, b}
                    /\ \A i \in lakeIds \ {firstBoth(a, b)} : lakes'[i] = lakes[i]
              /\ falseChangesNothing(a, b)]_vars

\* a call has returned true, two lakes border both zones, and only the first
\* has them in its keepConnections
C6_Witness ==
    /\ keepRet
    /\ \E a, b \in ZoneIds :
          /\ a # b
          /\ Cardinality(bordersBoth(a, b)) = 2
          /\ {a, b} \subseteq lakes[firstBoth(a, b)].keepConnections
          /\ \A i \in bordersBoth(a, b) \ {firstBoth(a, b)} :
                lakes[i].keepConnections = {}

\* dst is a start zone or has a town
startOrTown == zoneType[dst] \in {"PLAYER_START", "CPU_START"} \/ towns[dst] >= 1

\* lake i borders dst, keeps its connection and is not a very small lake
toConnect(i) ==
    /\ dst \in DOMAIN lakes[i].neighbourZones
    /\ dst \in lakes[i].keepConnections
    /\ Cardinality(lakes[i].area) >= MinLakeSize

try(i, kind, ok) == [lake |-> i, kind |-> kind, ok |-> ok]

\* C7: while waterRoute(dst) runs, a lake to connect gets a shipyard attempt
\* first iff dst is a start zone or has a town; the boat is tried exactly when
\* that is not so or the shipyard attempt failed, never after a shipyard was
\* placed; so at most one object is placed for a lake
C7_ShipyardThenBoat ==
    routing =>
        /\ \A i \in lakeIds :
              /\ attemptsOf(i) # <<>> => toConnect(i)
              /\ Len(SelectSeq(attemptsOf(i), LAMBDA r : r.ok)) <= 1
              /\ (toConnect(i) /\ (i < cur \/ (i = cur /\ pc = "boat"))) =>
                    IF startOrTown
                    THEN \/ attemptsOf(i) = <<try(i, "shipyard", TRUE)>> /\ i < cur
                         \/ \E ok \in BOOLEAN :
                               /\ i < cur
                               /\ attemptsOf(i) = <<try(i, "shipyard", FALSE),
                                                    try(i, "boat", ok)>>
                         \/ /\ i = cur
                            /\ attemptsOf(i) = <<try(i, "shipyard", FALSE)>>
                    ELSE \/ \E ok \in BOOLEAN :
                               i < cur /\ attemptsOf(i) = <<try(i, "boat", ok)>>
                         \/ i = cur /\ attemptsOf(i) = <<>>
        /\ pc = "shipyard" => startOrTown /\ toConnect(cur) /\ attemptsOf(cur) = <<>>
        /\ pc = "boat" => toConnect(cur)

\* dst is a zone with a town that is no start zone; the shipyard failed and
\* the boat was placed for a lake
C7_Witness ==
    /\ routing
    /\ zoneType[dst] = "TREASURE" /\ towns[dst] = 1
    /\ \E i \in lakeIds :
          attemptsOf(i) = <<try(i, "shipyard", FALSE), try(i, "boat", TRUE)>>

\* a step of waterRoute at the head of its loop, on a lake that borders dst
\* and keeps its connection
keptLakeStep ==
    /\ pc = "lakes" /\ cur <= Len(lakes)
    /\ dst \in DOMAIN lakes[cur].neighbourZones
    /\ dst \in lakes[cur].keepConnections
    /\ <<pc, cur, cand>>' # <<pc, cur, cand>>

\* C8: for a lake that borders dst, keeps its connection and has fewer than 25
\* tiles, waterRoute goes on to the next lake and attempts no placement,
\* blocks no tile, changes no area and leaves the RouteInfo as it is (empty
\* when nothing was placed before); a lake of 25 tiles or more is not passed
\* over: a placement is attempted
C8_SmallLakeSkipped ==
    /\ [][keptLakeStep =>
            IF Cardinality(lakes[cur].area) < 25
            THEN /\ pc' = "lakes" /\ cur' = cur + 1
                 /\ UNCHANGED <<terType, zoneOf, occ, nearObj, area,
                                areaPossible, freePaths, pos, lakes, result,
                                attempts, severed>>
            ELSE pc' \in {"shipyard", "boat"}]_vars
    /\ [](routing /\ (\A k \in 1 .. Len(attempts) : ~attempts[k].ok)
            => result = EmptyRoute)

\* waterRoute is at its end; the only lake that borders dst keeps the
\* connection and has 24 tiles; nothing was attempted and the RouteInfo is empty
C8_Witness ==
    /\ pc = "lakes" /\ cur > Len(lakes)
    /\ \E i \in lakeIds :
          /\ dst \in DOMAIN lakes[i].neighbourZones
          /\ dst \in lakes[i].keepConnections
          /\ Cardinality(lakes[i].area) = 24
          /\ \A j \in lakeIds \ {i} : dst \notin DOMAIN lakes[j].neighbourZones
    /\ attempts = <<>> /\ severed = {}
    /\ result = EmptyRoute

\* the successful attempts of the running waterRoute
placed == SelectSeq(attempts, LAMBDA r : r.ok)

\* C9: after a successful placement the RouteInfo is consistent: the water
\* set is not empty, the boarding tile is on its outside border and is one of
\* the border tiles the lake records for the land zone, and the visitable
\* tile lies in the blocked footprint
C9_RouteInfoConsistent ==
    (processDone /\ placed # <<>>) =>
        /\ result.water # {}
        /\ result.boarding \in getBorderOutside(result.water)
        /\ result.boarding \in
              lakes[placed[Len(placed)].lake].neighbourZones[dst]
        /\ result.visitable \in result.blocked

\* a boat was placed after the shipyard had failed
C9_Witness ==
    /\ Len(placed) = 1 /\ placed[1].kind = "boat"
    /\ Len(attempts) = 2
    /\ result.boarding \in Tiles /\ result.water # {}

\* C10: every mutation of another zone's state is made with that zone's
\* areaMutex held, and WaterProxy holds a zone mutex only in the scope that
\* mutates
C10_MutationsUnderLock ==
    /\ mutLog.held
    /\ pc \in {"process", "zones", "idle", "lakes", "severLock", "shipyard", "boat"}
          => \A z \in ZoneIds : areaMutex[z] # Holder

---------------------------------------------------------------------------
(* Properties of the later stages *)

\* the zones whose confirmed area holds tile t
zonesOf(t) == {z \in ZoneIds : t \in area[z]}

\* C11: in every state, the states between the steps of one tile's transfer
\* in process() included, each tile is in the confirmed area of exactly one
\* zone and the zone id of the map names that zone
C11_TileInOneZone ==
    \A t \in Tiles : zonesOf(t) = {zoneOf[t]}

\* C12: an absent collaborator makes the operation fail and is never used:
\* waterRoute(dst) for a zone without WaterAdopter returns the empty RouteInfo
\* at once; placeBoat succeeds only if the water zone and the land zone both
\* have an ObjectManager, placeShipyard only if the land zone has one; and no
\* step calls through the pointer of an absent ObjectManager
C12_AbsentCollaboratorFails ==
    /\ pc # "crashed"
    /\ (routes >= 1 /\ ~hasAdopter[dst]) => (result = EmptyRoute /\ ~routing)
    /\ \A k \in 1 .. Len(attempts) :
          attempts[k].ok =>
              /\ hasManager[dst]
              /\ attempts[k].kind = "boat" => hasManager[zoneId]

\* no lake has border tiles filed under zone d
noSharedLake(d) == \A i \in lakeIds : d \notin DOMAIN lakes[i].neighbourZones

\* a step of a waterRoute call: its entry, or a step inside it
routeStep == (pc = "idle" /\ routes' = routes + 1) \/ routing

\* C13: waterRoute(dst) for a zone dst that no lake borders changes no
\* occupancy, no area of any zone and no lake, takes no mutex, places nothing
\* and returns the empty RouteInfo; and inside any call, a lake that dst does
\* not border is passed over with nothing changed
C13_NoSharedLakeNoOp ==
    /\ [][(routeStep /\ noSharedLake(dst')) =>
             /\ UNCHANGED <<gridVars, zoneVars, lakes, lakeMap>>
             /\ \A z \in ZoneIds : areaMutex'[z] # Holder
             /\ result' = EmptyRoute /\ attempts' = <<>> /\ severed' = {}]_vars
    /\ [][(inLoop /\ ~(dst \in DOMAIN lakes[cur].neighbourZones)
             /\ <<pc, cur>>' # <<pc, cur>>) =>
             /\ pc' = "lakes" /\ cur' = cur + 1
             /\ UNCHANGED <<gridVars, zoneVars, lakes, lakeMap, areaMutex,
                            result, attempts, severed>>]_vars

\* waterRoute has returned for a land zone that no lake borders
C13_Witness ==
    /\ pc = "idle" /\ routes = 1
    /\ dst \in LandIds /\ noSharedLake(dst)
    /\ result = EmptyRoute

---------------------------------------------------------------------------
(* Scheduling: the WaterProxy thread keeps running while it is inside an   *)
(* operation, a thread blocked on a zone mutex gets it once it is free     *)
(* often enough, and the modificators of the other zones release the       *)
(* mutexes they took.                                                      *)

\* process() is through its loop over the zones: lines 71-78 are next
lakesReady == pc = "zones" /\ zIter = {}

\* a step of the WaterProxy thread inside process() or waterRoute(), up to
\* line 69 of process()
running ==
    /\ ~lakesReady
    /\ ~processDone \/ routing
    /\ process \/ waterRoute

\* process() does not stop before lines 71-78: the step of these lines,
\* ProcessFinish, is enabled exactly where lakesReady holds and ends it, so
\* this is weak fairness of ProcessFinish
finishing == []<>(~lakesReady)

FairSpec ==
    /\ Spec
    /\ SF_vars(running)
    /\ finishing
    /\ WF_vars(\E z \in LandIds : OtherUnlock(z))

\* a candidate loop of placeShipyard or placeBoat is running
candidateLoop == pc \in {"shipyard", "boat"}

\* the boarding positions the running candidate loop started from
initialBoarding ==
    IF pc = "shipyard" THEN yardBoarding(dst, lakes[cur])
    ELSE boatBoarding(dst, lakes[cur])

\* the attempt the running candidate loop records when it ends
loopEnd(ok) == [lake |-> cur, kind |-> pc, ok |-> ok]

\* C14: the candidate loops terminate.  Every iteration either erases the
\* first of the boarding positions left and goes on, or commits that
\* position and leaves with success; the loop leaves with failure only when
\* no position is left; the positions left are always the last ones of the
\* initial positions in iteration order, so the position committed is the
\* first that passed, after at most as many iterations as there were
\* positions; and each loop is left in the end
C14_CandidateLoopsTerminate ==
    /\ [][(candidateLoop /\ <<pc, cur, cand>>' # <<pc, cur, cand>>) =>
             \/ /\ cand # {} /\ cand' = cand \ {First(cand)}
                /\ pc' = pc /\ attempts' = attempts /\ result' = result
             \/ /\ cand # {} /\ pc' # pc
                /\ attempts' = Append(attempts, loopEnd(TRUE))
                /\ result'.boarding = First(cand)
                /\ result'.water # {}
             \/ /\ cand = {} /\ pc' # pc
                /\ attempts' = Append(attempts, loopEnd(FALSE))]_vars
    /\ [](candidateLoop =>
             /\ cand \subseteq initialBoarding
             /\ \A t \in initialBoarding \ cand : \A u \in cand : TileLess(t, u))
    /\ (pc = "shipyard") ~> (pc # "shipyard")
    /\ (pc = "boat") ~> (pc # "boat")

\* placeShipyard has tried and discarded all its candidates, and placeBoat
\* has discarded some of its own and has others left
C14_Witness ==
    /\ pc = "boat"
    /\ attempts # <<>> /\ attempts[Len(attempts)] = try(cur, "shipyard", FALSE)
    /\ yardBoarding(dst, lakes[cur]) # {}
    /\ cand # {} /\ cand # initialBoarding

\* a step of a candidate loop other than a commit
failingStep ==
    /\ candidateLoop
    /\ <<pc, cur, cand>>' # <<pc, cur, cand>>
    /\ ~(Len(attempts') > Len(attempts) /\ attempts'[Len(attempts')].ok)

\* C15: a failed placement leaves no trace: the steps of placeBoat and
\* placeShipyard up to a return of false change neither the RouteInfo nor the
\* occupancy of a tile (nothing is Blocked, no object placed) nor an area or
\* the free paths of a zone (no path connected); and waterRoute has the empty
\* RouteInfo when every attempt of the call failed
C15_FailedPlacementNoTrace ==
    /\ [][failingStep =>
             UNCHANGED <<result, gridVars, zoneVars, lakes, lakeMap>>]_vars
    /\ []((routes >= 1 /\ \A k \in 1 .. Len(attempts) : ~attempts[k].ok)
             => result = EmptyRoute)

\* waterRoute has returned after placeShipyard and placeBoat both had
\* candidates and both failed
C15_Witness ==
    /\ pc = "idle" /\ routes = 1
    /\ Len(attempts) = 2 /\ ~attempts[1].ok /\ ~attempts[2].ok
    /\ yardBoarding(dst, lakes[attempts[1].lake]) # {}
    /\ boatBoarding(dst, lakes[attempts[2].lake]) # {}
    /\ result = EmptyRoute

---------------------------------------------------------------------------
(* A pipeline that calls waterRoute twice, on two of the maps *)

MaxRoutes == 2

RepeatScenarios ==
    {scenario(l, FullPipeline, <<1, 1>>) : l \in {PlainLayout, SmallLakeLayout}}

InitRepeat == \E s \in RepeatScenarios : InitWith(s, MaxRoutes)

SpecRepeat == InitRepeat /\ [][Next]_vars

\* tile t is on the border of a lake with land zone z, is Blocked and is
\* out of the tentative area of z: what severing makes of a Possible tile
sealed(z, t) ==
    /\ \E i \in lakeIds : z \in DOMAIN lakes[i].neighbourZones
                          /\ t \in lakes[i].neighbourZones[z]
    /\ occ[t] = "BLOCKED"
    /\ t \notin areaPossible[z]

\* C16: waterRoute(dst) on a border whose connection is not kept severs it,
\* and no later waterKeepConnection or waterRoute undoes that: a border tile
\* that is Blocked and out of dst's tentative area stays Blocked and out of
\* it, so it never becomes Possible and never re-enters the tentative area,
\* whatever waterKeepConnection returns afterwards
C16_SeverIsFinal ==
    /\ [][\A z \in LandIds : \A t \in Tiles : sealed(z, t) => sealed(z, t)']_vars
    /\ [](\A r \in severedDone : \A t \in r.possible : sealed(dst, t))

\* the second waterRoute(dst) has returned; the first severed the border of
\* a lake, waterKeepConnection then returned true and put dst into the lake's
\* keepConnections, a boat was placed for the lake, and the tiles of the
\* border are still sealed
C16_Witness ==
    /\ pc = "idle" /\ routes = 2 /\ keepRet
    /\ placed # <<>>
    /\ \E t \in lakes[placed[1].lake].neighbourZones[dst] : sealed(dst, t)
    /\ dst \in lakes[placed[1].lake].keepConnections

\* C17: after process() on a zone with a non-empty area the anchor of the
\* zone is a tile of its area; process() moves the anchor only in lines
\* 71-74, and not even there when the anchor is inside the area as grown by
\* the tiles claimed from the siblings
C17_AnchorInArea ==
    /\ []((processDone /\ area[zoneId] # {}) => pos[zoneId] \in area[zoneId])
    /\ [][~processDone =>
             IF lakesReady /\ pc' # pc
             THEN pos[zoneId] \in area[zoneId] => pos' = pos
             ELSE pos' = pos]_vars

\* process() is over; the anchor was outside the area the zone started with,
\* on the tile claimed from zone 2, and is still there
C17_Witness ==
    /\ pc = "idle" /\ routes = 0
    /\ mutLog.zone = 2 /\ mutLog.what = "setOccupied"
    /\ pos[zoneId] = BleedTile /\ BleedTile # First(area[zoneId])

\* C18: after a successful placeBoat or placeShipyard for lake L the water
\* tiles of the RouteInfo are tiles of L
C18_WaterInLake ==
    (processDone /\ placed # <<>>) =>
        result.water \subseteq lakes[placed[Len(placed)].lake].area

\* lake i was dealt with by the running waterRoute: its border severed, the
\* lake passed over as very small, or a placement attempted
handled(i) ==
    \/ \E r \in severed : r.lake = i
    \/ dst \in lakes[i].keepConnections /\ verySmall(lakes[i])
    \/ attemptsOf(i) # <<>>

\* a successful placement has just been recorded
committing ==
    Len(attempts') > Len(attempts) /\ attempts'[Len(attempts')].ok

\* C19: one waterRoute(dst) call deals with every lake that borders dst, in
\* the order of the lake list; the RouteInfo is written by a successful
\* placement only, for the lake in hand, and every other step of the call
\* leaves it as it is, so what is returned is what the last successful
\* placement wrote: it is not empty iff a placement succeeded, and a failure
\* or a skip after a success does not clear it
C19_LastPlacementReturned ==
    /\ [][routeStep =>
             IF committing
             THEN /\ attempts'[Len(attempts')].lake = cur
                  /\ result'.boarding = First(cand)
                  /\ result'.boarding \in lakes[cur].neighbourZones[dst]
                  /\ result'.water # {}
                  /\ attempts'[Len(attempts')].kind = "shipyard"
                        => result'.water \subseteq lakes[cur].area
             ELSE result' = IF routing THEN result ELSE EmptyRoute]_vars
    /\ []((routes >= 1 /\ pc # "process") =>
             (result # EmptyRoute <=> placed # <<>>))
    /\ [](routing =>
             /\ \A k \in 1 .. Len(attempts) : attempts[k].lake <= cur
             /\ \A k, l \in 1 .. Len(attempts) :
                   k < l => attempts[k].lake <= attempts[l].lake
             /\ \A i \in lakeIds :
                   (i < cur /\ dst \in DOMAIN lakes[i].neighbourZones)
                       => handled(i))

\* waterRoute is at its end: a shipyard was placed for the first lake and
\* another for the second, whose water the RouteInfo holds
C19_Witness ==
    /\ pc = "lakes" /\ cur > Len(lakes)
    /\ Len(placed) = 2 /\ placed[1].lake = 1 /\ placed[2].lake = 2
    /\ result.water # {} /\ result.water \subseteq lakes[2].area

\* the zones whose areaMutex the WaterProxy thread holds
held == {z \in ZoneIds : areaMutex[z] = Holder}

\* the positions inside the scope of the lock of line 56 or of line 146
lockScope == {"tiles", "eraseArea", "addArea", "addPossible", "setZoneID",
              "setOccupied", "severSubtract", "severUnlock"}

=============================================================================
